---- MODULE Spec2Model ----
(***************************************************************************)
(* Flappy Dragon (Ferlinnnnn/flappy_Game): the game-mode state machine of  *)
(* src/main.rs (State::tick and the three mode handlers), the obstacle     *)
(* generator State::create_obstacle_with_constraint, and the messages the  *)
(* game loop sends to the audio workers of src/sound.rs.                   *)
(*                                                                         *)
(* One TLA+ step of Spec is one call of State::tick: the whole handler of  *)
(* the current mode, with the key, the mouse click and the elapsed time of *)
(* that frame as inputs.  SpecGen exercises the obstacle generator alone,  *)
(* on every score and every history value of a bounded range.  SpecAudio   *)
(* runs the game loop together with the two worker threads of sound.rs,    *)
(* under every availability of the audio device and the asset files.       *)
(***************************************************************************)
EXTENDS Integers, Sequences, FiniteSets, TLC

VARIABLES
    player,               \* State.player: [x, y, velocity]
    frame_time,           \* State.frame_time (ms)
    mode,                 \* State.mode
    obstacles,            \* State.obstacles: sequence of [x, gap_y, size]
    score,                \* State.score
    audio_enabled,        \* State.audio_enabled
    music_enabled,        \* State.music_enabled
    buttons,              \* State.buttons: sequence of Button records
    last_obstacle_gap_y,  \* State.last_obstacle_gap_y: <<>> is None, <<v>> is Some(v)
    quitting,             \* ctx.quitting
    crashed,              \* the process has panicked
    bg_image_ok,          \* assets/background.png can be opened
    sound_sent,           \* effects sent on sound_tx during the last tick
    bgm_sent,             \* messages sent on bgm_play_tx / bgm_stop_tx during the last tick
    gen_log,              \* calls of create_obstacle_with_constraint during the last tick
    audio_device,         \* OutputStream::try_default() succeeds
    bgm_asset,            \* assets/bgm.wav opens, decodes and gets a sink
    bgm_worker,           \* the thread of start_bgm_thread: [pc, current_sink, consumed]
    bgm_play_rx,          \* messages pending on play_rx
    bgm_stop_rx,          \* messages pending on stop_rx
    sound_rx              \* effects pending on the rx of start_sound_thread

game == <<player, frame_time, mode, obstacles, score, audio_enabled, music_enabled,
          buttons, last_obstacle_gap_y, quitting, crashed, bg_image_ok,
          sound_sent, bgm_sent, gen_log>>
channels == <<bgm_play_rx, bgm_stop_rx, sound_rx>>
workers == <<audio_device, bgm_asset, bgm_worker>>
vars == <<game, channels, workers>>

----------------------------------------------------------------------------
(* Program constants *)

SCREEN_WIDTH == 80
SCREEN_HEIGHT == 50
FRAME_DURATION == 75
INITIAL_OBSTACLES == 3
OBSTACLE_INTERVAL == 30
PlayerStartX == 5
PlayerStartY == 25
MinGapSize == 5
BaseGapSize == 20
GapMargin == 2

(* Entity physics and the first obstacle set of State::new live in          *)
(* player.rs and obstacle.rs; their constants are fixed here in whole units. *)
Gravity == 1
TerminalVelocity == 2
FlapVelocity == 0 - 2
XStep == 1

(* Bounds of the model *)
MaxX == 19          \* Spec: no physics step is taken from x >= MaxX
MaxFlightX == 82    \* SpecFlight: no physics step is taken from x >= MaxFlightX
MaxClimb == 4       \* no physics step lifts the entity above y = PlayerStartY - MaxClimb
PickDen == 1        \* the game draws the points k/PickDen of a random range, k = 0..PickDen
MaxScore == 22      \* SpecGen: scores 0..MaxScore
HistLow == 5        \* SpecGen: history values from -HistLow
HistHigh == 75      \* SpecGen: history values up to HistHigh
GenDen == 50        \* SpecGen draws the points k/GenDen of a random range: all of them
MaxRunX == 322      \* SpecRun: no physics step is taken from x >= MaxRunX
RunBand == 1        \* SpecRun: no physics step leaves y in PlayerStartY -/+ RunBand
RunDen == 2         \* SpecRun draws the points k/RunDen of a random range
MaxQueue == 2       \* SpecAudio: at most MaxQueue messages pending on a channel

Max(a, b) == IF a >= b THEN a ELSE b
Min(a, b) == IF a <= b THEN a ELSE b
Abs(a) == IF a >= 0 THEN a ELSE 0 - a

None == <<>>
Some(v) == <<v>>
IsSome(o) == Len(o) = 1
Unwrap(o) == o[1]

Keys == {"None", "Space", "P", "Q", "M", "B"}
FrameTimes == {75, 100}
(* ctx.mouse_pos() with ctx.left_click: the row clicked, at column 35; 0 is no click *)
MouseX == 35
ClickRows == {0, 16, 21, 26, 31, 36}

----------------------------------------------------------------------------
(* The State struct as one record, so that the steps of a handler compose *)

Cur ==
    [player |-> player, frame_time |-> frame_time, mode |-> mode,
     obstacles |-> obstacles, score |-> score,
     audio_enabled |-> audio_enabled, music_enabled |-> music_enabled,
     buttons |-> buttons, last_obstacle_gap_y |-> last_obstacle_gap_y,
     quitting |-> quitting, crashed |-> crashed, bg_image_ok |-> bg_image_ok,
     sound_sent |-> <<>>, bgm_sent |-> <<>>, gen_log |-> <<>>,
     sound_rx_alive |-> TRUE, bgm_rx_alive |-> bgm_worker.pc # "exited"]

Install(s) ==
    /\ player' = s.player
    /\ frame_time' = s.frame_time
    /\ mode' = s.mode
    /\ obstacles' = s.obstacles
    /\ score' = s.score
    /\ audio_enabled' = s.audio_enabled
    /\ music_enabled' = s.music_enabled
    /\ buttons' = s.buttons
    /\ last_obstacle_gap_y' = s.last_obstacle_gap_y
    /\ quitting' = s.quitting
    /\ crashed' = s.crashed
    /\ bg_image_ok' = s.bg_image_ok
    /\ sound_sent' = s.sound_sent
    /\ bgm_sent' = s.bgm_sent
    /\ gen_log' = s.gen_log

(* A panic unwinds out of tick: nothing after it runs *)
Panic(s) == [s EXCEPT !.crashed = TRUE]

----------------------------------------------------------------------------
(* Audio messages *)

(* Sender::send on an mpsc::channel(): it never blocks, and it returns Err *)
(* when the receiver has been dropped.  sound_sent and bgm_sent record    *)
(* the calls of send of the tick.                                         *)
SendEffect(s, effect) ==
    [ok |-> s.sound_rx_alive, s |-> [s EXCEPT !.sound_sent = Append(@, effect)]]
SendBgm(s, msg) ==
    [ok |-> s.bgm_rx_alive, s |-> [s EXCEPT !.bgm_sent = Append(@, msg)]]

(* "let _ = ...send(...)" *)
IgnoreResult_Unwrap(r) == IF r.ok THEN r.s ELSE Panic(r.s)
IgnoreResult(r) == r.s

play_sound(s, effect) ==
    IF s.audio_enabled THEN IgnoreResult(SendEffect(s, effect)) ELSE s

set_music_AlwaysPlay(s, enable) == [s EXCEPT !.bgm_sent = Append(@, "play")]

set_music(s, enable) ==
    IF enable THEN IgnoreResult(SendBgm(s, "play"))
              ELSE IgnoreResult(SendBgm(s, "stop"))

----------------------------------------------------------------------------
(* The obstacle generator *)

GapSize_NoFloor(sc) == BaseGapSize - sc
GapSize(sc) == Max(MinGapSize, BaseGapSize - sc)
HalfSize(size) == size \div 2
MinGapY(size) == HalfSize(size) + GapMargin
MaxGapY(size) == SCREEN_HEIGHT - HalfSize(size) - GapMargin
MaxDiff == (SCREEN_HEIGHT * 2) \div 3
MinAllowed_Unclamped(size, last) == MinGapY(size)
MinAllowed(size, last) == Max(MinGapY(size), last - MaxDiff)
MaxAllowed_Unclamped(size, last) == MaxGapY(size)
MaxAllowed_MinusDiff(size, last) == Min(MaxGapY(size), last - MaxDiff)
MaxAllowed(size, last) == Min(MaxGapY(size), last + MaxDiff)

RangeLow(size, hist) ==
    IF IsSome(hist) THEN MinAllowed(size, Unwrap(hist)) ELSE MinGapY(size)
RangeHigh(size, hist) ==
    IF IsSome(hist) THEN MaxAllowed(size, Unwrap(hist)) ELSE MaxGapY(size)

(* RandomNumberGenerator::range(lo, hi) draws from lo..hi-1 and panics on an *)
(* empty range; num/den selects the point of the range that is drawn.        *)
RangePanics(lo, hi) == lo >= hi
RandomRange(lo, hi, num, den) == lo + ((hi - 1 - lo) * num) \div den

NewObstacle(x, gap_y, size) == [x |-> x, gap_y |-> gap_y, size |-> size]

(* Returns the state after the call and the obstacle it returned *)
create_obstacle_with_constraint(s, x, sc, num, den) ==
    LET size == GapSize(sc)
        hist == s.last_obstacle_gap_y
        lo == RangeLow(size, hist)
        hi == RangeHigh(size, hist)
        call == [x |-> x, score |-> sc, last |-> hist, size |-> size]
    IN  IF RangePanics(lo, hi)
        THEN [s |-> Panic([s EXCEPT !.gen_log =
                            Append(@, [call |-> call, returned |-> FALSE, gap_y |-> 0])]),
              ob |-> NewObstacle(x, 0, size)]
        ELSE LET gap_y == RandomRange(lo, hi, num, den)
             IN  [s |-> [s EXCEPT !.last_obstacle_gap_y = Some(gap_y),
                                  !.gen_log = Append(@, [call |-> call, returned |-> TRUE,
                                                         gap_y |-> gap_y])],
                  ob |-> NewObstacle(x, gap_y, size)]

----------------------------------------------------------------------------
(* Entity and obstacle (player.rs, obstacle.rs) *)

PlayerNew(x, y) == [x |-> x, y |-> y, velocity |-> 0]

gravity_and_move(p) ==
    LET v == IF p.velocity < TerminalVelocity THEN p.velocity + Gravity ELSE p.velocity
    IN  [x |-> p.x + XStep, y |-> p.y + v, velocity |-> v]

flap(p) == [p EXCEPT !.velocity = FlapVelocity]

ObstacleNew(x, sc, gap_y) == NewObstacle(x, gap_y, Max(MinGapSize, BaseGapSize - sc))

hit_obstacle(o, p) ==
    LET half_size == o.size \div 2
    IN  /\ p.x = o.x
        /\ \/ p.y < o.gap_y - half_size
           \/ p.y > o.gap_y + half_size

----------------------------------------------------------------------------
(* Buttons *)

ButtonNew(x, y, width, height, text, action) ==
    [x |-> x, y |-> y, width |-> width, height |-> height, text |-> text, action |-> action]

contains_point(b, x, y) ==
    /\ x >= b.x
    /\ x < b.x + b.width
    /\ y >= b.y
    /\ y < b.y + b.height

(* format!("Audio: {}", if flag { "ON" } else { "OFF" }) *)
AudioText(flag) == IF flag THEN "Audio: ON" ELSE "Audio: OFF"
MusicText(flag) == IF flag THEN "Music: ON" ELSE "Music: OFF"

MenuButtons(audio, music) ==
    << ButtonNew(30, 15, 20, 3, "Play Game", "Play"),
       ButtonNew(30, 20, 20, 3, "Quit Game", "Quit"),
       ButtonNew(30, 25, 20, 3, AudioText(audio), "ToggleAudio"),
       ButtonNew(30, 30, 20, 3, MusicText(music), "ToggleMusic") >>

EndButtons(audio, music) ==
    << ButtonNew(30, 20, 20, 3, "Play Again", "Restart"),
       ButtonNew(30, 25, 20, 3, "Quit Game", "Quit"),
       ButtonNew(30, 30, 20, 3, AudioText(audio), "ToggleAudio"),
       ButtonNew(30, 35, 20, 3, MusicText(music), "ToggleMusic") >>

create_menu_buttons(s) == [s EXCEPT !.buttons = MenuButtons(s.audio_enabled, s.music_enabled)]
create_end_buttons(s) == [s EXCEPT !.buttons = EndButtons(s.audio_enabled, s.music_enabled)]

(* "match self.mode" after a toggle by button *)
RebuildButtons(s) ==
    IF s.mode = "Menu" THEN create_menu_buttons(s)
    ELSE IF s.mode = "End" THEN create_end_buttons(s)
    ELSE s

----------------------------------------------------------------------------
(* restart: r is the three random draws of its loop *)

RECURSIVE RestartLoop(_, _, _, _, _)
RestartLoop(s, x, i, r, den) ==
    IF i > INITIAL_OBSTACLES \/ s.crashed THEN s
    ELSE LET g == create_obstacle_with_constraint(s, x, 0, r[i], den)
         IN  IF g.s.crashed THEN g.s
             ELSE RestartLoop([g.s EXCEPT !.obstacles = Append(@, g.ob)],
                              x + OBSTACLE_INTERVAL, i + 1, r, den)

RestartMusic(s) == IF s.music_enabled THEN set_music(s, TRUE) ELSE s

restart_KeepsHistory(s, r, den) ==
    LET s0 == [s EXCEPT !.player = PlayerNew(PlayerStartX, PlayerStartY),
                        !.frame_time = 0,
                        !.mode = "Playing",
                        !.obstacles = <<>>]
        s1 == RestartLoop(s0, SCREEN_WIDTH, 1, r, den)
    IN  IF s1.crashed THEN s1
        ELSE RestartMusic([s1 EXCEPT !.score = 0, !.buttons = <<>>])

restart(s, r, den) ==
    LET s0 == [s EXCEPT !.player = PlayerNew(PlayerStartX, PlayerStartY),
                        !.frame_time = 0,
                        !.mode = "Playing",
                        !.obstacles = <<>>,
                        !.last_obstacle_gap_y = None]
        s1 == RestartLoop(s0, SCREEN_WIDTH, 1, r, den)
    IN  IF s1.crashed THEN s1
        ELSE RestartMusic([s1 EXCEPT !.score = 0, !.buttons = <<>>])

----------------------------------------------------------------------------
(* Mouse and keyboard of the Menu and End screens *)

ToggleAudio_Keeps(s) == s
ToggleAudio(s) == [s EXCEPT !.audio_enabled = ~@]
ToggleMusic(s) ==
    LET s1 == [s EXCEPT !.music_enabled = ~@]
    IN  set_music(s1, s1.music_enabled)
SetQuitting_Noop(s) == s
SetQuitting(s) == [s EXCEPT !.quitting = TRUE]

handle_button_click(s, action, r, den) ==
    CASE action = "Play" -> restart(s, r, den)
      [] action = "Quit" -> SetQuitting(s)
      [] action = "ToggleAudio" -> RebuildButtons(ToggleAudio(s))
      [] action = "ToggleMusic" -> RebuildButtons(ToggleMusic(s))
      [] action = "Restart" -> restart(s, r, den)

(* the first button under the mouse, 0 if none *)
ButtonAt(bs, x, y) ==
    LET hits == {i \in 1..Len(bs) : contains_point(bs[i], x, y)}
    IN  IF hits = {} THEN 0 ELSE CHOOSE i \in hits : \A j \in hits : i <= j

(* click = 0: ctx.left_click is false; otherwise the row of the click *)
handle_mouse(s, click, r, den) ==
    IF click = 0 THEN s
    ELSE LET i == ButtonAt(s.buttons, MouseX, click)
         IN  IF i = 0 THEN s ELSE handle_button_click(s, s.buttons[i].action, r, den)

set_background(s) == IF s.bg_image_ok THEN s ELSE Panic(s)

MenuKey_AudioKeyEnds(s, key, r, den) ==
    CASE key = "P" -> restart(s, r, den)
      [] key = "Q" -> SetQuitting(s)
      [] key = "M" -> SetQuitting(create_menu_buttons([s EXCEPT !.mode = "End"]))
      [] key = "B" -> create_menu_buttons(ToggleMusic(s))
      [] OTHER -> s

MenuKey(s, key, r, den) ==
    CASE key = "P" -> restart(s, r, den)
      [] key = "Q" -> SetQuitting(s)
      [] key = "M" -> create_menu_buttons(ToggleAudio(s))
      [] key = "B" -> create_menu_buttons(ToggleMusic(s))
      [] OTHER -> s

main_menu(s, key, click, r1, r2, den) ==
    LET s1 == IF s.buttons = <<>> THEN create_menu_buttons(s) ELSE s
        s2 == set_background(s1)
        s3 == IF s2.crashed THEN s2 ELSE handle_mouse(s2, click, r1, den)
    IN  IF s3.crashed THEN s3 ELSE MenuKey(s3, key, r2, den)

EndKey_AudioKeyClearsScore(s, key, r, den) ==
    CASE key = "P" -> restart(s, r, den)
      [] key = "Q" -> SetQuitting(s)
      [] key = "M" -> [create_end_buttons(ToggleAudio(s)) EXCEPT !.score = 0]
      [] key = "B" -> create_end_buttons(ToggleMusic(s))
      [] OTHER -> s

EndKey(s, key, r, den) ==
    CASE key = "P" -> restart(s, r, den)
      [] key = "Q" -> SetQuitting(s)
      [] key = "M" -> create_end_buttons(ToggleAudio(s))
      [] key = "B" -> create_end_buttons(ToggleMusic(s))
      [] OTHER -> s

dead(s, key, click, r1, r2, den) ==
    LET s1 == IF s.buttons = <<>> THEN create_end_buttons(s) ELSE s
        s2 == handle_mouse(s1, click, r1, den)
    IN  IF s2.crashed THEN s2 ELSE EndKey(s2, key, r2, den)

----------------------------------------------------------------------------
(* play *)

PhysicsDue_AtThreshold(ft) == ft >= FRAME_DURATION
PhysicsDue(ft) == ft > FRAME_DURATION

PlayPhysics(s, dt) ==
    LET s1 == [s EXCEPT !.frame_time = @ + dt]
    IN  IF PhysicsDue(s1.frame_time)
        THEN [s1 EXCEPT !.frame_time = 0, !.player = gravity_and_move(@)]
        ELSE s1

PlayKeys(s, key) ==
    LET s1 == IF key = "Space" THEN play_sound([s EXCEPT !.player = flap(@)], "Flap") ELSE s
        s2 == IF key = "M" THEN ToggleAudio(s1) ELSE s1
    IN  IF key = "B" THEN ToggleMusic(s2) ELSE s2

Passed_AtOrBeyond(obs, p) ==
    LET is == {i \in 1..Len(obs) : p.x >= obs[i].x}
    IN  IF is = {} THEN 0 ELSE CHOOSE i \in is : \A j \in is : j <= i

(* the last index whose obstacle the entity has passed, 0 for None *)
Passed(obs, p) ==
    LET is == {i \in 1..Len(obs) : p.x > obs[i].x}
    IN  IF is = {} THEN 0 ELSE CHOOSE i \in is : \A j \in is : j <= i

HitAny(obs, p) == \E i \in 1..Len(obs) : hit_obstacle(obs[i], p)

MaxObstacleX_First(obs) == IF Len(obs) = 0 THEN SCREEN_WIDTH ELSE obs[1].x

MaxObstacleX(obs) ==
    IF Len(obs) = 0 THEN SCREEN_WIDTH
    ELSE CHOOSE m \in {obs[i].x : i \in 1..Len(obs)} : \A i \in 1..Len(obs) : obs[i].x <= m

PlayHit_Silent(s, hit) ==
    IF hit THEN [s EXCEPT !.mode = "End"] ELSE s

PlayHit(s, hit) ==
    IF hit THEN play_sound([s EXCEPT !.mode = "End"], "Hit") ELSE s

PlayPassed(s, i, num, den) ==
    IF i = 0 THEN s
    ELSE LET s1 == [s EXCEPT !.score = @ + 1]
             new_x == MaxObstacleX(s1.obstacles) + OBSTACLE_INTERVAL
             g == create_obstacle_with_constraint(s1, new_x, s1.score, num, den)
         IN  IF g.s.crashed THEN g.s ELSE [g.s EXCEPT !.obstacles[i] = g.ob]

PlayFloor_NoEnd(s) == s

PlayFloor(s) ==
    IF s.player.y > SCREEN_HEIGHT
    THEN play_sound([s EXCEPT !.mode = "End"], "GameOver")
    ELSE s

play(s, key, dt, num, den) ==
    LET s1 == PlayKeys(PlayPhysics(s, dt), key)
        passed == Passed(s1.obstacles, s1.player)
        hit == HitAny(s1.obstacles, s1.player)
        s2 == PlayPassed(PlayHit(s1, hit), passed, num, den)
    IN  IF s2.crashed THEN s2 ELSE PlayFloor(s2)

----------------------------------------------------------------------------
(* State::new and GameState::tick *)

Picks(den) == 0..den
Draws(den) == [1..INITIAL_OBSTACLES -> Picks(den)]
NoDraws == [i \in 1..INITIAL_OBSTACLES |-> 0]
(* the draws of a restart, enumerated only when the restart runs *)
DrawsIf(used, den) == IF used THEN Draws(den) ELSE {NoDraws}
(* The draws of the restart a click runs.  When the P key of the same tick *)
(* restarts again, restart overwrites every obstacle and the gap history   *)
(* of the first one, so the first restart is drawn at the low end only.    *)
ClickDraws(restarts, key, den) == DrawsIf(restarts /\ key # "P", den)
PicksIf(used, den) == IF used THEN Picks(den) ELSE {0}

Running == ~quitting /\ ~crashed

(* The threads start_sound_thread and start_bgm_thread have just spawned *)
WorkersNew ==
    /\ bgm_worker = [pc |-> "boot", current_sink |-> FALSE, consumed |-> FALSE]
    /\ bgm_play_rx = 0
    /\ bgm_stop_rx = 0
    /\ sound_rx = <<>>

(* Spec, SpecFlight and SpecGen follow the game loop on a machine with every *)
(* asset present; what a tick sends is in sound_sent and bgm_sent, and the   *)
(* channels and the workers are followed in SpecAudio.                       *)
AllAssets ==
    /\ bg_image_ok = TRUE
    /\ audio_device = TRUE
    /\ bgm_asset = TRUE
Unfollowed == UNCHANGED <<channels, workers>>

StateNew ==
    /\ player = PlayerNew(PlayerStartX, PlayerStartY)
    /\ frame_time = 0
    /\ mode = "Menu"
    /\ \E r \in Draws(PickDen) :
         obstacles = [i \in 1..INITIAL_OBSTACLES |->
                        ObstacleNew(SCREEN_WIDTH + (i - 1) * OBSTACLE_INTERVAL, 0,
                                    RandomRange(MinGapY(BaseGapSize), MaxGapY(BaseGapSize),
                                                r[i], PickDen))]
    /\ score = 0
    /\ audio_enabled = TRUE
    /\ music_enabled = TRUE
    /\ buttons = <<>>
    /\ last_obstacle_gap_y = None
    /\ quitting = FALSE
    /\ crashed = FALSE
    /\ sound_sent = <<>>
    /\ bgm_sent = <<>>
    /\ gen_log = <<>>

Init == StateNew /\ WorkersNew /\ AllAssets

(* the button list the handler works with: created first if it is empty *)
MenuButtonsNow == IF buttons = <<>> THEN MenuButtons(audio_enabled, music_enabled) ELSE buttons
EndButtonsNow == IF buttons = <<>> THEN EndButtons(audio_enabled, music_enabled) ELSE buttons

(* does a click on this row reach restart through the button under it *)
ClickRestarts(bs, click) ==
    /\ click # 0
    /\ ButtonAt(bs, MouseX, click) # 0
    /\ bs[ButtonAt(bs, MouseX, click)].action \in {"Play", "Restart"}

MenuTick(key, click, r1, r2) ==
    /\ Running
    /\ mode = "Menu"
    /\ Install(main_menu(Cur, key, click, r1, r2, PickDen))

(* the physics step of this tick, if one is due, stays inside the model's bounds *)
PlayStepAllowed(dt, maxx) ==
    PhysicsDue(frame_time + dt) =>
        /\ player.x < maxx
        /\ gravity_and_move(player).y >= PlayerStartY - MaxClimb

PlayTick(key, dt, num, maxx) ==
    /\ Running
    /\ mode = "Playing"
    /\ PlayStepAllowed(dt, maxx)
    /\ Install(play(Cur, key, dt, num, PickDen))

EndTick(key, click, r1, r2) ==
    /\ Running
    /\ mode = "End"
    /\ Install(dead(Cur, key, click, r1, r2, PickDen))

(* one tick with the given inputs; the random draws are enumerated only *)
(* for the calls that make them                                         *)
MenuTickWith(key, click) ==
    /\ mode = "Menu"
    /\ \E r1 \in ClickDraws(ClickRestarts(MenuButtonsNow, click), key, PickDen),
          r2 \in DrawsIf(key = "P", PickDen) :
         MenuTick(key, click, r1, r2)

PlayTickWith(key, dt, maxx) ==
    /\ mode = "Playing"
    /\ \E num \in PicksIf(Passed(obstacles, PlayPhysics(Cur, dt).player) # 0, PickDen) :
         PlayTick(key, dt, num, maxx)

EndTickWith(key, click) ==
    /\ mode = "End"
    /\ \E r1 \in ClickDraws(ClickRestarts(EndButtonsNow, click), key, PickDen),
          r2 \in DrawsIf(key = "P", PickDen) :
         EndTick(key, click, r1, r2)

MenuTicks(K, C) == \E key \in K, click \in C : MenuTickWith(key, click)
PlayTicks(K, D, maxx) == \E key \in K, dt \in D : PlayTickWith(key, dt, maxx)
EndTicks(K, C) == \E key \in K, click \in C : EndTickWith(key, click)

(* Spec: every key and every click on the Menu and End screens; in play every *)
(* key but the flap, so the entity falls from its start position to the floor *)
PlayKeysNoFlap == Keys \ {"Space"}

TickMenu == MenuTicks(Keys, ClickRows) /\ Unfollowed
TickPlaying == PlayTicks(PlayKeysNoFlap, FrameTimes, MaxX) /\ Unfollowed
TickEnd == EndTicks(Keys, ClickRows) /\ Unfollowed

Next == TickMenu \/ TickPlaying \/ TickEnd

Spec == Init /\ [][Next]_vars

(* SpecFlight: the same game from State::new, flown past the first obstacle: *)
(* the inputs are the flap, the start key and a click on the first button    *)
(* row, with a physics step on every Playing tick                            *)
FlightKeys == {"None", "Space", "P"}
FlightClicks == {0, 16}
FlightEndClicks == {0}
(* a flight that has ended is restarted on its next tick *)
FlightEndKeys == {"P"}
FlightTimes == {100}

FlightMenu == MenuTicks(FlightKeys, FlightClicks) /\ Unfollowed
FlightPlaying == PlayTicks(FlightKeys, FlightTimes, MaxFlightX) /\ Unfollowed
FlightEnd == EndTicks(FlightEndKeys, FlightEndClicks) /\ Unfollowed

NextFlight == FlightMenu \/ FlightPlaying \/ FlightEnd

SpecFlight == Init /\ [][NextFlight]_vars

----------------------------------------------------------------------------
(* SpecGen: create_obstacle_with_constraint alone, called once with every *)
(* score in 0..MaxScore, every history in None, Some(-HistLow..HistHigh)    *)
(* and every outcome of the random draw; the obstacle it returns replaces  *)
(* the first obstacle, as play does with a passed one.                     *)

Histories == {None} \cup {Some(h) : h \in (0 - HistLow)..HistHigh}

InitGen ==
    /\ player = PlayerNew(PlayerStartX, PlayerStartY)
    /\ frame_time = 0
    /\ mode = "Playing"
    /\ obstacles = [i \in 1..INITIAL_OBSTACLES |->
                      ObstacleNew(SCREEN_WIDTH + (i - 1) * OBSTACLE_INTERVAL, 0,
                                  MinGapY(BaseGapSize))]
    /\ score \in 0..MaxScore
    /\ audio_enabled = TRUE
    /\ music_enabled = TRUE
    /\ buttons = <<>>
    /\ last_obstacle_gap_y \in Histories
    /\ quitting = FALSE
    /\ crashed = FALSE
    /\ sound_sent = <<>>
    /\ bgm_sent = <<>>
    /\ gen_log = <<>>
    /\ WorkersNew
    /\ AllAssets

GenCall(num) ==
    /\ Running
    /\ gen_log = <<>>
    /\ LET g == create_obstacle_with_constraint(
                    Cur, MaxObstacleX(obstacles) + OBSTACLE_INTERVAL, score, num, GenDen)
       IN  Install(IF g.s.crashed THEN g.s ELSE [g.s EXCEPT !.obstacles[1] = g.ob])
    /\ Unfollowed

NextGen == \E num \in Picks(GenDen) : GenCall(num)

SpecGen == InitGen /\ [][NextGen]_vars

----------------------------------------------------------------------------
(* SpecRun: one game from State::new, started with the P key and flown   *)
(* level with the flap key through obstacle after obstacle, a physics    *)
(* step on every tick, until x = MaxRunX: nine obstacles are passed and  *)
(* the gap size shrinks from 20 to 11.                                   *)

RunKeys == {"None", "Space"}
RunTime == 100

RunMenu ==
    /\ \E r \in Draws(RunDen) :
         /\ Running
         /\ mode = "Menu"
         /\ Install(main_menu(Cur, "P", 0, NoDraws, r, RunDen))
    /\ Unfollowed

RunStepAllowed ==
    /\ player.x < MaxRunX
    /\ gravity_and_move(player).y >= PlayerStartY - RunBand
    /\ gravity_and_move(player).y <= PlayerStartY + RunBand

RunPlaying ==
    /\ \E key \in RunKeys :
         \E num \in PicksIf(Passed(obstacles, PlayPhysics(Cur, RunTime).player) # 0, RunDen) :
           /\ Running
           /\ mode = "Playing"
           /\ RunStepAllowed
           /\ Install(play(Cur, key, RunTime, num, RunDen))
    /\ Unfollowed

(* after a collision: End ticks with no key or a toggle key, no click *)
RunEndKeys == {"None", "M", "B"}
RunEnd ==
    /\ \E key \in RunEndKeys : EndTick(key, 0, NoDraws, NoDraws)
    /\ Unfollowed

NextRun == RunMenu \/ RunPlaying \/ RunEnd

SpecRun == Init /\ [][NextRun]_vars

----------------------------------------------------------------------------
(* SpecAudio: the game loop and the two worker threads of sound.rs, one  *)
(* step of a thread at a time, with the audio device, assets/bgm.wav and *)
(* assets/background.png each present or missing.  The game is played    *)
(* with the start key and the music key and falls to the floor.          *)

(* how many of the tick's bgm sends went to one channel *)
RECURSIVE CountMsg(_, _)
CountMsg(log, msg) ==
    IF log = <<>> THEN 0
    ELSE (IF Head(log) = msg THEN 1 ELSE 0) + CountMsg(Tail(log), msg)

InitAudio ==
    /\ StateNew
    /\ WorkersNew
    /\ bg_image_ok \in BOOLEAN
    /\ audio_device \in BOOLEAN
    /\ bgm_asset \in BOOLEAN

(* The sends of the tick arrive on their channels; a send to a dropped *)
(* receiver is lost.  No tick is taken that would leave more than      *)
(* MaxQueue messages pending on a channel.                             *)
Deliver ==
    /\ bgm_play_rx' = IF bgm_worker.pc # "exited"
                      THEN bgm_play_rx + CountMsg(bgm_sent', "play") ELSE bgm_play_rx
    /\ bgm_stop_rx' = IF bgm_worker.pc # "exited"
                      THEN bgm_stop_rx + CountMsg(bgm_sent', "stop") ELSE bgm_stop_rx
    /\ sound_rx' = sound_rx \o sound_sent'
    /\ bgm_play_rx' <= MaxQueue
    /\ bgm_stop_rx' <= MaxQueue
    /\ Len(sound_rx') <= MaxQueue
    /\ UNCHANGED workers

AudioKeys == {"None", "B", "P"}
AudioTimes == {100}
(* no click; a restart draws every gap at the low end or every gap at the *)
(* high end of its range: the entity falls before it reaches an obstacle  *)
AudioDraws == {NoDraws, [i \in 1..INITIAL_OBSTACLES |-> PickDen]}

AudioMenu ==
    /\ \E key \in AudioKeys : \E r \in AudioDraws : MenuTick(key, 0, NoDraws, r)
    /\ Deliver
AudioPlaying == PlayTicks(AudioKeys, AudioTimes, MaxX) /\ Deliver
AudioEnd ==
    /\ \E key \in AudioKeys : \E r \in AudioDraws : EndTick(key, 0, NoDraws, r)
    /\ Deliver

(* start_bgm_thread: OutputStream::try_default(); without a device the *)
(* thread returns and both receivers are dropped                       *)
BgmBoot ==
    /\ Running
    /\ bgm_worker.pc = "boot"
    /\ IF audio_device
       THEN /\ bgm_worker' = [bgm_worker EXCEPT !.pc = "check_play"]
            /\ UNCHANGED channels
       ELSE /\ bgm_worker' = [bgm_worker EXCEPT !.pc = "exited"]
            /\ bgm_play_rx' = 0
            /\ bgm_stop_rx' = 0
            /\ UNCHANGED sound_rx
    /\ UNCHANGED <<game, audio_device, bgm_asset>>

(* "if let Ok(_) = play_rx.try_recv()": stop the current sink, then start *)
(* a new one if the file opens, decodes and a sink can be made            *)
BgmCheckPlay ==
    /\ Running
    /\ bgm_worker.pc = "check_play"
    /\ IF bgm_play_rx > 0
       THEN /\ bgm_play_rx' = bgm_play_rx - 1
            /\ bgm_worker' = [pc |-> "check_stop", current_sink |-> bgm_asset,
                              consumed |-> TRUE]
       ELSE /\ bgm_worker' = [bgm_worker EXCEPT !.pc = "check_stop"]
            /\ UNCHANGED bgm_play_rx
    /\ UNCHANGED <<game, audio_device, bgm_asset, bgm_stop_rx, sound_rx>>

(* "if let Ok(_) = stop_rx.try_recv()": stop the current sink; then the *)
(* 100 ms sleep and the next round of the loop                          *)
BgmCheckStop ==
    /\ Running
    /\ bgm_worker.pc = "check_stop"
    /\ IF bgm_stop_rx > 0
       THEN /\ bgm_stop_rx' = bgm_stop_rx - 1
            /\ bgm_worker' = [pc |-> "check_play", current_sink |-> FALSE,
                              consumed |-> TRUE]
       ELSE /\ bgm_worker' = [bgm_worker EXCEPT !.pc = "check_play"]
            /\ UNCHANGED bgm_stop_rx
    /\ UNCHANGED <<game, audio_device, bgm_asset, bgm_play_rx, sound_rx>>

(* start_sound_thread: "if let Ok(effect) = rx.recv()"; with or without a *)
(* device the effect is taken off the channel, and the thread never ends  *)
SoundRecv ==
    /\ Running
    /\ sound_rx # <<>>
    /\ sound_rx' = Tail(sound_rx)
    /\ UNCHANGED <<game, workers, bgm_play_rx, bgm_stop_rx>>

NextAudio ==
    \/ AudioMenu \/ AudioPlaying \/ AudioEnd
    \/ BgmBoot \/ BgmCheckPlay \/ BgmCheckStop \/ SoundRecv

SpecAudio == InitAudio /\ [][NextAudio]_vars

----------------------------------------------------------------------------
(* Claims about the mode machine *)

(* The claims below are stated over every tick that can follow a reachable *)
(* state: the handler of the state's mode applied to it with every input.  *)
StartInMenu(key, click) == key = "P" \/ ClickRestarts(MenuButtonsNow, click)
RestartInEnd(key, click) == key = "P" \/ ClickRestarts(EndButtonsNow, click)

InMenu == Running /\ mode = "Menu"
InPlaying == Running /\ mode = "Playing"
InEnd == Running /\ mode = "End"

(* The draws of a restart as the claims about mode, score, flags and     *)
(* messages sample them: the high end of every range.  Every state a     *)
(* restart leads to is itself reached, with every draw, by the tick      *)
(* actions; C7 quantifies over every draw.                               *)
HighDraws == [i \in 1..INITIAL_OBSTACLES |-> PickDen]
SampleDraws(used) == IF used THEN {HighDraws} ELSE {NoDraws}

(* P holds of every (key, click, state after the tick) of a Menu tick *)
AfterMenuTick(P(_, _, _)) ==
    \A key \in Keys, click \in ClickRows :
      \A r1 \in SampleDraws(ClickRestarts(MenuButtonsNow, click)),
         r2 \in SampleDraws(key = "P") :
        P(key, click, main_menu(Cur, key, click, r1, r2, PickDen))

AfterEndTick(P(_, _, _)) ==
    \A key \in Keys, click \in ClickRows :
      \A r1 \in SampleDraws(ClickRestarts(EndButtonsNow, click)),
         r2 \in SampleDraws(key = "P") :
        P(key, click, dead(Cur, key, click, r1, r2, PickDen))

AfterPlayTick(P(_, _, _)) ==
    \A key \in Keys, dt \in FrameTimes :
      \A num \in PicksIf(Passed(obstacles, PlayPhysics(Cur, dt).player) # 0, PickDen) :
        P(key, dt, play(Cur, key, dt, num, PickDen))

(* the same over the frame times of a flight, where every tick is a *)
(* physics step                                                     *)
AfterFlightTick(P(_, _, _)) ==
    \A key \in Keys, dt \in FlightTimes :
      \A num \in PicksIf(Passed(obstacles, PlayPhysics(Cur, dt).player) # 0, PickDen) :
        P(key, dt, play(Cur, key, dt, num, PickDen))

(* C1: the mode changes only Menu->Playing (on a start action in Menu),     *)
(* Playing->End (on a collision or entity y > 50) and End->Playing (on a    *)
(* restart action in End); no tick moves the mode to Menu, from Menu to End *)
(* or out of Playing by a start/restart action.                             *)
C1_Menu(key, click, t) ==
    t.mode = IF StartInMenu(key, click) THEN "Playing" ELSE "Menu"
C1_End(key, click, t) ==
    t.mode = IF RestartInEnd(key, click) THEN "Playing" ELSE "End"
C1_Play(key, dt, t) ==
    t.mode = IF HitAny(obstacles, t.player) \/ t.player.y > 50 THEN "End" ELSE "Playing"

C1_ModeTransitions ==
    /\ InMenu => AfterMenuTick(C1_Menu)
    /\ InEnd => AfterEndTick(C1_End)
    /\ InPlaying => AfterFlightTick(C1_Play)

C1_Witness ==
    /\ mode = "End"
    /\ HitAny(obstacles, player)
    /\ player.y <= 50

(* C2: a Playing tick that ends with entity y > 50 sets the mode to End in  *)
(* that tick; from then on every tick without a restart action leaves the   *)
(* mode End and the entity where it fell and sends no further GameOver, and *)
(* a restart action is the only way out of End.                             *)
NoGameOver(sent) == \A k \in 1..Len(sent) : sent[k] # "GameOver"

C2_Play(key, dt, t) == t.player.y > 50 => t.mode = "End"
C2_End(key, click, t) ==
    IF RestartInEnd(key, click)
    THEN t.mode = "Playing"
    ELSE /\ t.mode = "End"
         /\ t.player = player
         /\ NoGameOver(t.sound_sent)

C2_FloorEndsGameOnce ==
    /\ InPlaying => AfterPlayTick(C2_Play)
    /\ (InEnd /\ player.y > 50) => AfterEndTick(C2_End)
    /\ mode = "Playing" => player.y <= 50

C2_Witness ==
    /\ mode = "End"
    /\ player.y > 50
    /\ buttons = EndButtons(audio_enabled, music_enabled)
    /\ ~audio_enabled
    /\ sound_sent = <<>>

(* C3: the score is never negative, is 0 after every start/restart, is    *)
(* otherwise unchanged by a Menu or End tick, grows by at most 1 in a       *)
(* Playing tick, and grows exactly when the entity's x has exceeded an      *)
(* obstacle's x; that obstacle is replaced in the same tick, so no obstacle *)
(* left in the set is behind the entity and none is counted again.          *)
NoneBehind(obs, p) == \A i \in 1..Len(obs) : obs[i].x >= p.x

C3_Menu(key, click, t) == t.score = IF StartInMenu(key, click) THEN 0 ELSE score
C3_End(key, click, t) == t.score = IF RestartInEnd(key, click) THEN 0 ELSE score
C3_Play(key, dt, t) ==
    /\ t.score = IF \E i \in 1..Len(obstacles) : t.player.x > obstacles[i].x
                 THEN score + 1 ELSE score
    /\ NoneBehind(t.obstacles, t.player)

C3_ScoreCounts ==
    /\ score >= 0
    /\ NoneBehind(obstacles, player)
    /\ InMenu => AfterMenuTick(C3_Menu)
    /\ InEnd => AfterEndTick(C3_End)
    /\ InPlaying => AfterFlightTick(C3_Play)

C3_Witness ==
    /\ score = 1
    /\ player.x = 82
    /\ gen_log = <<>>

(* C7: a restart from any reachable Menu or End state yields mode Playing,  *)
(* score 0, the entity at (5, 25), time accumulator 0 and exactly 3         *)
(* obstacles at x = 80, 110, 140 with gap size 20, the first generated with *)
(* the history absent; a second restart right after it yields the same      *)
(* state up to the random gap_y choices and the history.                    *)
EraseGaps(s) ==
    [s EXCEPT !.obstacles = [i \in DOMAIN @ |-> [@[i] EXCEPT !.gap_y = 0]],
              !.last_obstacle_gap_y = None,
              !.gen_log = <<>>, !.bgm_sent = <<>>, !.sound_sent = <<>>]

C7_After(a) ==
    /\ a.mode = "Playing"
    /\ a.score = 0
    /\ a.player.x = 5 /\ a.player.y = 25
    /\ a.frame_time = 0
    /\ Len(a.obstacles) = 3
    /\ \A i \in 1..3 : a.obstacles[i].x = 80 + 30 * (i - 1) /\ a.obstacles[i].size = 20
    /\ Len(a.gen_log) = 3
    /\ a.gen_log[1].call.last = None
    /\ EraseGaps(restart([a EXCEPT !.gen_log = <<>>], NoDraws, PickDen)) = EraseGaps(a)

C7_RestartResets ==
    (InMenu \/ InEnd) => \A r \in Draws(PickDen) : C7_After(restart(Cur, r, PickDen))

C7_Witness ==
    /\ mode = "End"
    /\ score = 1
    /\ IsSome(last_obstacle_gap_y)
    /\ player.x > 5

(* C8: the obstacle set always has exactly 3 obstacles with pairwise        *)
(* distinct x and maximum x = 140 + 30 * score; a Playing tick leaves each  *)
(* obstacle as it was or overwrites, in place, one the entity has passed    *)
(* with an obstacle at (maximum x before the replacement) + 30.             *)
IsMaxX(obs, m) ==
    /\ \E i \in 1..Len(obs) : obs[i].x = m
    /\ \A i \in 1..Len(obs) : obs[i].x <= m

C8_Play(key, dt, t) ==
    /\ Len(t.obstacles) = 3
    /\ \A i \in 1..3 :
         \/ t.obstacles[i] = obstacles[i]
         \/ /\ t.player.x > obstacles[i].x
            /\ IsMaxX(obstacles, t.obstacles[i].x - 30)

C8_ThreeObstacles ==
    /\ Len(obstacles) = 3
    /\ \A i, j \in 1..3 : i # j => obstacles[i].x # obstacles[j].x
    /\ IsMaxX(obstacles, 140 + 30 * score)
    /\ InPlaying => AfterFlightTick(C8_Play)

C8_Witness ==
    /\ score = 1
    /\ obstacles[1].x = 170
    /\ obstacles[2].x = 110
    /\ obstacles[3].x = 140

(* C9 as claimed: in every mode, Menu, Playing and End, a tick that carries *)
(* a quit action sets the quitting flag.                                    *)
ClickAction(bs, click) ==
    IF click = 0 \/ ButtonAt(bs, MouseX, click) = 0 THEN "None"
    ELSE bs[ButtonAt(bs, MouseX, click)].action

C9_Menu(key, click, t) ==
    (key = "Q" \/ ClickAction(MenuButtonsNow, click) = "Quit") => t.quitting
C9_End(key, click, t) ==
    (key = "Q" \/ ClickAction(EndButtonsNow, click) = "Quit") => t.quitting
C9_PlayQuits(key, dt, t) == key = "Q" => t.quitting
C9_PlayIgnores(key, dt, t) == ~t.quitting

Msg(flag) == IF flag THEN "play" ELSE "stop"

(* the messages and the flag after one input of a Menu or End tick *)
C10_Sent(m, toggles, starts) ==
    IF toggles THEN <<Msg(~m)>> ELSE IF starts /\ m THEN <<"play">> ELSE <<>>
C10_Flag(m, toggles) == IF toggles THEN ~m ELSE m

C10_Screen(bs, key, click, t) ==
    LET ca == ClickAction(bs, click)
        m1 == C10_Flag(music_enabled, ca = "ToggleMusic")
    IN  /\ t.music_enabled = C10_Flag(m1, key = "B")
        /\ t.bgm_sent = C10_Sent(music_enabled, ca = "ToggleMusic", ca \in {"Play", "Restart"})
                        \o C10_Sent(m1, key = "B", key = "P")
        /\ t.mode = IF ca \in {"Play", "Restart"} \/ key = "P" THEN "Playing" ELSE mode

C10_Menu(key, click, t) == C10_Screen(MenuButtonsNow, key, click, t)
C10_End(key, click, t) == C10_Screen(EndButtonsNow, key, click, t)
C10_Play(key, dt, t) ==
    /\ t.music_enabled = C10_Flag(music_enabled, key = "B")
    /\ t.bgm_sent = C10_Sent(music_enabled, key = "B", FALSE)
    /\ t.mode = IF HitAny(obstacles, t.player) \/ t.player.y > 50 THEN "End" ELSE "Playing"

C10_MusicToggle ==
    /\ InMenu => AfterMenuTick(C10_Menu)
    /\ InEnd => AfterEndTick(C10_End)
    /\ InPlaying => AfterPlayTick(C10_Play)

C10_Witness ==
    /\ mode = "Playing"
    /\ ~music_enabled
    /\ bgm_sent = <<"stop">>

----------------------------------------------------------------------------
(* Claims about the obstacle generator *)

LogIndices == 1..Len(gen_log)
SizeFor(sc) == IF 20 - sc > 5 THEN 20 - sc ELSE 5
HalfOf(size) == size \div 2
InUnclampedRange(gap_y, size) ==
    /\ gap_y >= HalfOf(size) + 2
    /\ gap_y <= 50 - HalfOf(size) - 2

(* C4: for every score s >= 0 the generator computes the gap size            *)
(* max(5, 20 - s), which is at least 5 (5 from s = 15 on, never zero or      *)
(* negative), and the obstacle it returns, now in the obstacle set, has that *)
(* size.                                                                     *)
C4_GapSize ==
    \A k \in LogIndices :
        LET e == gen_log[k]
        IN  /\ e.call.score >= 0
            /\ e.call.size = SizeFor(e.call.score)
            /\ e.call.size >= 5
            /\ e.call.score >= 20 => e.call.size = 5
            /\ e.returned =>
                 \E i \in 1..Len(obstacles) :
                    /\ obstacles[i].x = e.call.x
                    /\ obstacles[i].gap_y = e.gap_y
                    /\ obstacles[i].size = SizeFor(e.call.score)

C4_Witness ==
    \E k \in LogIndices :
        /\ gen_log[k].call.score = 20
        /\ gen_log[k].returned
        /\ obstacles[1].size = 5

(* C5: every obstacle the generator returns has gap_y in                    *)
(* [half_size+2, 50-half_size-2]; with the history present gap_y differs    *)
(* from the history value by at most 33; after the call the history is the  *)
(* gap_y just chosen.                                                       *)
C5_GapYRange ==
    \A k \in LogIndices :
        LET e == gen_log[k]
        IN  e.returned =>
              /\ InUnclampedRange(e.gap_y, e.call.size)
              /\ IsSome(e.call.last) => Abs(e.gap_y - Unwrap(e.call.last)) <= 33
              /\ k = Len(gen_log) => last_obstacle_gap_y = Some(e.gap_y)

C5_Witness ==
    \E k \in LogIndices :
        /\ gen_log[k].returned
        /\ IsSome(gen_log[k].call.last)
        /\ Abs(gen_log[k].gap_y - Unwrap(gen_log[k].call.last)) = 33
        /\ last_obstacle_gap_y = Some(gen_log[k].gap_y)

(* C6: when the clamped range is degenerate, max(min_gap_y, last - 33) >    *)
(* min(max_gap_y, last + 33), the generator still returns a gap_y inside    *)
(* the unclamped range [half_size+2, 50-half_size-2] and nothing crashes.   *)
IsDegenerate(e) ==
    /\ IsSome(e.call.last)
    /\ LET lo == IF HalfOf(e.call.size) + 2 >= Unwrap(e.call.last) - 33
                 THEN HalfOf(e.call.size) + 2 ELSE Unwrap(e.call.last) - 33
           hi == IF 50 - HalfOf(e.call.size) - 2 <= Unwrap(e.call.last) + 33
                 THEN 50 - HalfOf(e.call.size) - 2 ELSE Unwrap(e.call.last) + 33
       IN  lo > hi

C6_DegenerateFallsBack ==
    \A k \in LogIndices :
        IsDegenerate(gen_log[k]) =>
            /\ ~crashed
            /\ gen_log[k].returned
            /\ InUnclampedRange(gen_log[k].gap_y, gen_log[k].call.size)

----------------------------------------------------------------------------
(* Claims about the audio switch and the effect channel *)

(* the number of toggle-audio actions a Menu or End tick carries *)
AudioToggles(bs, key, click) ==
    (IF ClickAction(bs, click) = "ToggleAudio" THEN 1 ELSE 0) + (IF key = "M" THEN 1 ELSE 0)

(* what the tick does apart from the audio switch: the mode and the music *)
(* flag are those the other actions of the tick give                      *)
C11_Rest(bs, key, click, t) ==
    LET ca == ClickAction(bs, click)
    IN  /\ t.mode = IF ca \in {"Play", "Restart"} \/ key = "P" THEN "Playing" ELSE mode
        /\ t.music_enabled = C10_Flag(C10_Flag(music_enabled, ca = "ToggleMusic"), key = "B")
        /\ t.sound_sent = <<>>

C11_ScreenPerTick(bs, key, click, t) ==
    /\ AudioToggles(bs, key, click) >= 1 => t.audio_enabled = ~audio_enabled
    /\ C11_Rest(bs, key, click, t)

C11_ScreenPerAction(bs, key, click, t) ==
    /\ t.audio_enabled = IF AudioToggles(bs, key, click) = 1 THEN ~audio_enabled
                         ELSE audio_enabled
    /\ C11_Rest(bs, key, click, t)

C11_MenuPerTick(key, click, t) == C11_ScreenPerTick(MenuButtonsNow, key, click, t)
C11_EndPerTick(key, click, t) == C11_ScreenPerTick(EndButtonsNow, key, click, t)
C11_MenuPerAction(key, click, t) == C11_ScreenPerAction(MenuButtonsNow, key, click, t)
C11_EndPerAction(key, click, t) == C11_ScreenPerAction(EndButtonsNow, key, click, t)

(* a Playing tick: M flips the flag, the music flag follows B alone, the *)
(* mode is what collision and floor give, and an effect is on the channel *)
(* only with the flag true when play_sound was called                     *)
C11_Play(key, dt, t) ==
    /\ t.audio_enabled = IF key = "M" THEN ~audio_enabled ELSE audio_enabled
    /\ t.music_enabled = C10_Flag(music_enabled, key = "B")
    /\ t.mode = IF HitAny(obstacles, t.player) \/ t.player.y > 50 THEN "End" ELSE "Playing"
    /\ t.sound_sent # <<>> => t.audio_enabled
    /\ (key = "Space" /\ ~audio_enabled) => t.sound_sent = <<>>

(* C11 as stated: in every mode a tick that carries a toggle-audio action *)
(* ends with the audio flag negated, the mode and the music flag          *)
(* unchanged by the toggle, and effects are requested only with the flag  *)
(* true.  Violated by a Menu or End tick that carries both a click on the *)
(* Audio button and the M key.                                            *)
C11_AudioTogglePerTick ==
    /\ sound_sent # <<>> => audio_enabled
    /\ InMenu => AfterMenuTick(C11_MenuPerTick)
    /\ InEnd => AfterEndTick(C11_EndPerTick)
    /\ InPlaying => AfterPlayTick(C11_Play)

(* C11 amended: each toggle-audio action (the M key, a click on the Audio *)
(* button) negates the audio flag, so a tick with exactly one of them     *)
(* ends with the flag negated and a tick with both ends with the flag it  *)
(* began with; the mode and the music flag are unchanged by the toggle;   *)
(* an effect is put on the channel only with the flag true at that moment *)
C11_AudioTogglePerAction ==
    /\ sound_sent # <<>> => audio_enabled
    /\ InMenu => AfterMenuTick(C11_MenuPerAction)
    /\ InEnd => AfterEndTick(C11_EndPerAction)
    /\ InPlaying => AfterPlayTick(C11_Play)

C11_Witness ==
    /\ mode = "End"
    /\ ~audio_enabled
    /\ player.y > 50
    /\ buttons # <<>>
    /\ ClickAction(buttons, 31) = "ToggleAudio"

----------------------------------------------------------------------------
(* Claims about the audio workers *)

(* the game state a tick leaves, apart from what it sent *)
Core(t) ==
    [player |-> t.player, frame_time |-> t.frame_time, mode |-> t.mode,
     obstacles |-> t.obstacles, score |-> t.score,
     audio_enabled |-> t.audio_enabled, music_enabled |-> t.music_enabled,
     buttons |-> t.buttons, last_obstacle_gap_y |-> t.last_obstacle_gap_y,
     quitting |-> t.quitting, crashed |-> t.crashed]

(* the state as the tick finds it when the receivers of the two workers *)
(* are alive or dropped                                                 *)
CurWith(sa, ba) == [Cur EXCEPT !.sound_rx_alive = sa, !.bgm_rx_alive = ba]

(* the handler's result is the same under every condition of the receivers *)
SameUnderAll(H(_)) ==
    LET u == H(CurWith(TRUE, TRUE))
    IN  \A sa, ba \in BOOLEAN :
          (~sa \/ ~ba) =>
            LET t == H(CurWith(sa, ba))
            IN  Core(t) = Core(u) /\ t.sound_sent = u.sound_sent /\ t.bgm_sent = u.bgm_sent

C12_Menu ==
    \A key \in Keys, click \in ClickRows :
      \A r1 \in SampleDraws(ClickRestarts(MenuButtonsNow, click)),
         r2 \in SampleDraws(key = "P") :
        LET H(s) == main_menu(s, key, click, r1, r2, PickDen)
        IN  SameUnderAll(H)

C12_End ==
    \A key \in Keys, click \in ClickRows :
      \A r1 \in SampleDraws(ClickRestarts(EndButtonsNow, click)),
         r2 \in SampleDraws(key = "P") :
        LET H(s) == dead(s, key, click, r1, r2, PickDen)
        IN  SameUnderAll(H)

C12_Play ==
    \A key \in Keys, dt \in FrameTimes :
      \A num \in PicksIf(Passed(obstacles, PlayPhysics(Cur, dt).player) # 0, PickDen) :
        LET H(s) == play(s, key, dt, num, PickDen)
        IN  SameUnderAll(H)

(* C12: the game state after a tick is the same whether the workers'      *)
(* receivers are alive or dropped, whatever is pending on the channels and *)
(* wherever the workers stand: from every reachable state, with every     *)
(* input, the handler gives the same game state and makes the same sends  *)
(* under each condition of the two receivers; and a missing audio device  *)
(* or music file never aborts a tick.                                     *)
C12_AudioNeverAffectsGame ==
    /\ crashed => ~bg_image_ok
    /\ InMenu => C12_Menu
    /\ InEnd => C12_End
    /\ InPlaying => C12_Play

(* a stop sent to the dropped receivers of the exited music worker, with *)
(* effects still pending on the channel of the other worker              *)
C12_Witness ==
    /\ mode = "End"
    /\ bgm_worker.pc = "exited"
    /\ ~audio_device
    /\ ~music_enabled
    /\ bgm_sent = <<"stop">>
    /\ sound_rx = <<"GameOver">>

(* C13: no tick aborts the process, whatever assets are missing. *)
(* Violated: without assets/background.png the first Menu tick   *)
(* panics in set_background.                                     *)
C13_NoTickAborts == ~crashed

(* C15: with the audio device and the music file present, once the music *)
(* worker has consumed every message sent so far, and there was at least *)
(* one, music is playing exactly if the music flag is true.  Violated: a *)
(* stop and a start pending together are taken start first.              *)
BgmQuiescent ==
    /\ audio_device
    /\ bgm_asset
    /\ bgm_worker.pc \in {"check_play", "check_stop"}
    /\ bgm_worker.consumed
    /\ bgm_play_rx = 0
    /\ bgm_stop_rx = 0

C15_MusicFollowsFlag == BgmQuiescent => (bgm_worker.current_sink <=> music_enabled)

----------------------------------------------------------------------------
(* Claims about the physics step and the obstacle run *)

(* C14: a Playing tick adds its elapsed time to the accumulator; the     *)
(* physics step runs exactly if the sum is strictly greater than 75, and *)
(* the accumulator is then 0; otherwise the accumulator keeps the sum    *)
(* and the entity's x and y are those before the tick.                   *)
C14_Play(key, dt, t) ==
    IF frame_time + dt > 75
    THEN /\ t.frame_time = 0
         /\ t.player.x = gravity_and_move(player).x
         /\ t.player.y = gravity_and_move(player).y
         /\ t.player.x # player.x
    ELSE /\ t.frame_time = frame_time + dt
         /\ t.player.x = player.x
         /\ t.player.y = player.y

C14_PhysicsStep ==
    /\ frame_time >= 0 /\ frame_time <= 75
    /\ InPlaying => AfterPlayTick(C14_Play)

(* the accumulator stands exactly at the threshold after a tick without *)
(* a physics step, later in a game                                      *)
C14_Witness ==
    /\ mode = "Playing"
    /\ frame_time = 75
    /\ player.x > 5
    /\ player.y > 25

(* j is the obstacle before i in x order *)
IsPredecessor(obs, j, i) ==
    /\ obs[j].x < obs[i].x
    /\ \A k \in 1..Len(obs) : ~(obs[j].x < obs[k].x /\ obs[k].x < obs[i].x)

(* the gap_y of the obstacle with the largest x *)
LastInX(obs) == (CHOOSE i \in 1..Len(obs) : \A k \in 1..Len(obs) : obs[k].x <= obs[i].x)

(* C16: in every Playing state the gap_y of an obstacle differs by at most *)
(* 33 from that of the obstacle before it in x order; generation order is  *)
(* x order: the history is the gap_y of the obstacle with the largest x,   *)
(* and a replacement generated on this tick was constrained by the gap_y   *)
(* of the obstacle before it in x order.                                   *)
C16_SmoothInXOrder ==
    mode = "Playing" =>
        /\ Len(obstacles) = 3
        /\ \A i, j \in 1..3 :
             IsPredecessor(obstacles, j, i) => Abs(obstacles[i].gap_y - obstacles[j].gap_y) <= 33
        /\ last_obstacle_gap_y = Some(obstacles[LastInX(obstacles)].gap_y)
        /\ \A k \in LogIndices :
             IsSome(gen_log[k].call.last) =>
               \E i, j \in 1..3 :
                  /\ obstacles[i].x = gen_log[k].call.x
                  /\ IsPredecessor(obstacles, j, i)
                  /\ gen_log[k].call.last = Some(obstacles[j].gap_y)

(* a replacement whose gap is held by the constraint: 33 below the obstacle *)
(* before it, where the unclamped range reaches lower                       *)
C16_Witness ==
    /\ mode = "Playing"
    /\ score = 9
    /\ \E i, j \in 1..3 :
         /\ IsPredecessor(obstacles, j, i)
         /\ obstacles[j].gap_y - obstacles[i].gap_y = 33
         /\ obstacles[i].gap_y > MinGapY(obstacles[i].size)

(* the clamped range of a call with this score and this history is not empty *)
C17_NonEmpty(sc, last) ==
    LET half == HalfOf(SizeFor(sc))
        lo == IF half + 2 >= last - 33 THEN half + 2 ELSE last - 33
        hi == IF 50 - half - 2 <= last + 33 THEN 50 - half - 2 ELSE last + 33
    IN  lo < hi

(* C17: every call of the generator made by restart or play with the     *)
(* history present has a non-empty clamped range and returns; the call   *)
(* the next pass would make from this state, with score + 1, has one     *)
(* too; and so has every call at a score up to MaxScore + 1 whose        *)
(* history is a gap_y that a call at the score before, or a restart, can *)
(* leave (computed in the Menu states).                                  *)
C17_RangeNeverEmptyInPlay ==
    /\ ~crashed
    /\ \A k \in LogIndices :
         /\ gen_log[k].returned
         /\ IsSome(gen_log[k].call.last) =>
              C17_NonEmpty(gen_log[k].call.score, gen_log[k].call.last[1])
    /\ (mode = "Playing" /\ IsSome(last_obstacle_gap_y)) =>
         C17_NonEmpty(score + 1, last_obstacle_gap_y[1])
    /\ mode = "Menu" =>
         \A sc \in 0..MaxScore :
           \A last \in (HalfOf(SizeFor(sc)) + 2)..(50 - HalfOf(SizeFor(sc)) - 3) :
             C17_NonEmpty(sc + 1, last) /\ C17_NonEmpty(0, last)

(* a call in play whose range is cut by the history on the low side *)
C17_Witness ==
    \E k \in LogIndices :
        /\ gen_log[k].call.score = 9
        /\ gen_log[k].returned
        /\ IsSome(gen_log[k].call.last)
        /\ gen_log[k].call.last[1] - 33 > HalfOf(gen_log[k].call.size) + 2

(* C18: a Menu or End tick without a start or restart action leaves the  *)
(* entity, the obstacles, the score, the gap history and the accumulator *)
(* as they were, so the score of an End state stays until restart.       *)
C18_Frame(t) ==
    /\ t.player = player
    /\ t.obstacles = obstacles
    /\ t.score = score
    /\ t.last_obstacle_gap_y = last_obstacle_gap_y
    /\ t.frame_time = frame_time
    /\ t.gen_log = <<>>

C18_Menu(key, click, t) == ~StartInMenu(key, click) => C18_Frame(t)
C18_End(key, click, t) == ~RestartInEnd(key, click) => C18_Frame(t)

C18_ScreensKeepGame ==
    /\ InMenu => AfterMenuTick(C18_Menu)
    /\ InEnd => AfterEndTick(C18_End)

(* an End state some ticks after a collision at the ninth obstacle passed *)
C18_Witness ==
    /\ mode = "End"
    /\ score = 8
    /\ ~audio_enabled
    /\ ~music_enabled
    /\ sound_sent = <<>>
    /\ HitAny(obstacles, player)

----------------------------------------------------------------------------
(* Claims about the end-of-game effects and the buttons *)

EffectIf(cond, effect) == IF cond THEN <<effect>> ELSE <<>>

(* the effects of a Playing tick, in the order play requests them: Flap   *)
(* with the flag before the key is handled, Hit and GameOver with the     *)
(* flag after it                                                          *)
C19_Play(key, dt, t) ==
    LET hit == HitAny(obstacles, t.player)
        floor == t.player.y > 50
    IN  /\ t.sound_sent = EffectIf(key = "Space" /\ audio_enabled, "Flap")
                          \o EffectIf(hit /\ t.audio_enabled, "Hit")
                          \o EffectIf(floor /\ t.audio_enabled, "GameOver")
        /\ (hit \/ floor) <=> t.mode = "End"
        /\ t.mode = "Playing" => \A k \in 1..Len(t.sound_sent) : t.sound_sent[k] = "Flap"

C19_Screen(key, click, t) == t.sound_sent = <<>>

(* C19: with the audio flag true when the effect is requested, the       *)
(* Playing tick that finds a collision sends Hit and the Playing tick    *)
(* that ends with y > 50 sends GameOver, each once and in the tick that  *)
(* sets End; a tick that leaves the mode Playing sends neither, and no   *)
(* Menu or End tick sends any effect, so that each is sent at most once  *)
(* between a start and the next.                                         *)
C19_EndEffects ==
    /\ InMenu => AfterMenuTick(C19_Screen)
    /\ InEnd => AfterEndTick(C19_Screen)
    /\ InPlaying => AfterFlightTick(C19_Play)

(* the tick of a collision, with the entity still above the floor *)
C19_Witness ==
    /\ mode = "End"
    /\ sound_sent = <<"Hit">>
    /\ HitAny(obstacles, player)
    /\ player.y <= 50

ButtonActions == [i \in 1..Len(buttons) |-> buttons[i].action]
ButtonTexts == [i \in 1..Len(buttons) |-> buttons[i].text]

(* C20: a non-empty button list is the button set of the current mode   *)
(* with the labels of the current flags, and it is empty in Playing.    *)
(* Violated: a Menu tick with a click on Play Game and the M key leaves *)
(* the Menu buttons in Playing mode, and they stay into End.            *)
C20_ButtonsMatchMode ==
    buttons # <<>> =>
        /\ mode # "Playing"
        /\ mode = "Menu" => ButtonActions = <<"Play", "Quit", "ToggleAudio", "ToggleMusic">>
        /\ mode = "End" => ButtonActions = <<"Restart", "Quit", "ToggleAudio", "ToggleMusic">>
        /\ ButtonTexts[3] = AudioText(audio_enabled)
        /\ ButtonTexts[4] = MusicText(music_enabled)

====
